---- MODULE Spec2Model ----
(***************************************************************************)
(* Model of the mocha TRX reporter, src/lib/trx.js.                        *)
(*                                                                         *)
(* The reporter subscribes to the runner's 'test', 'test end', 'fail',     *)
(* 'suite end' and 'end' events.  Every handler is one action.  The test   *)
(* objects, the suite tree and the hooks belong to the runner; the model   *)
(* keeps of them the fields the reporter reads or writes.                  *)
(*                                                                         *)
(* JavaScript values that can be of several types (an option that is the   *)
(* boolean true, the string "true" or undefined) are tuples whose first    *)
(* element is the type name.  A string is a sequence of chunks: a chunk is *)
(* one character or one token such as "[hash]", ".trx" or "/".             *)
(***************************************************************************)
EXTENDS Integers, Sequences, FiniteSets, TLC

\* ------------------------------------------------------------------ bounds

\* Number of test objects of the run.
NumTests == 2

\* Longest attachment list a test carries.
MaxAttachments == 2

\* ------------------------------------------------- the runner's objects

Tests == 1..NumTests

\* Suite "B" is nested in suite "A"; "A" has no parent that the reporter sees.
Suites == {"A", "B"}

NoSuite == "none"

SuiteParent(s) == IF s = "B" THEN "A" ELSE NoSuite

SuiteChildren(s) == IF s = "A" THEN <<"B">> ELSE <<>>

\* Odd tests are declared in "A", even tests in "B".
TestParent(t) == IF t % 2 = 1 THEN "A" ELSE "B"

\* suite.fullTitle(): the titles of the ancestors and of the suite itself.
RECURSIVE FullTitle(_)
FullTitle(s) ==
    IF s = NoSuite THEN <<>> ELSE FullTitle(SuiteParent(s)) \o <<s>>

\* The tests declared directly in s, in declaration order.
RECURSIVE OwnTestsFrom(_, _)
OwnTestsFrom(s, t) ==
    IF t > NumTests THEN <<>>
    ELSE (IF TestParent(t) = s THEN <<t>> ELSE <<>>) \o OwnTestsFrom(s, t + 1)

\* suite.eachTest(fn): the order in which fn is called, the suite's own tests
\* first, then those of each nested suite.
RECURSIVE EachTest(_)
RECURSIVE EachTestOfAll(_)
EachTest(s) == OwnTestsFrom(s, 1) \o EachTestOfAll(SuiteChildren(s))
EachTestOfAll(ss) ==
    IF ss = <<>> THEN <<>> ELSE EachTest(Head(ss)) \o EachTestOfAll(Tail(ss))

HookTitles == {"\"before each\" hook", "\"after all\" hook"}

\* The objects a 'fail' event can carry: a hook of a suite, or a test.
Hooks == [type : {"hook"}, title : HookTitles, parent : Suites]

FailedTest(t) == [type |-> "test", title |-> "test", parent |-> TestParent(t)]

\* failedHook = null
NoHook == [type |-> "null", title |-> "", parent |-> NoSuite]

\* failed.err.stack of a hook failure
HookStack(h) == <<"stack of", h.title, h.parent>>

\* test.err: undefined, the error mocha attaches to a test whose body failed,
\* or the object the reporter builds at line 50.
NoErr == [message |-> <<"undefined">>, stack |-> <<"undefined">>]

TestBodyErr == [message |-> <<"boom">>, stack |-> <<"stack of", "test">>]

\* ------------------------------------------------------------ the state

VARIABLES
    state,          \* test.state: "none" (undefined), "passed", "failed", "pending"
    err,            \* test.err
    pendingFlag,    \* test.isPending()
    started,        \* test.start has been assigned
    ended,          \* test.end has been assigned
    tests,          \* the Set `tests`, in insertion order
    failedHook,     \* the step-failure marker
    suiteEnded,     \* the suites whose 'suite end' the runner has emitted
    hookFailedIn,   \* history: the suites a hook of which has failed
    owed,           \* history: per test, the suites that ended after a hook
                    \* of theirs had failed, while the test had no state
                    \* and was not pending
    phase,          \* "running" until the 'end' handler has run
    inputs,         \* what the 'end' handler read from its environment
    testResults,    \* runner.testResults
    filename,       \* the value of getFilename(reporterOptions)
    runResults,     \* the results added to the TestRun, in order
    excludedPendingCount,
    warnings,       \* the console.warn calls
    stdout,         \* the process.stdout.write calls
    fsLog,          \* the fs calls, each with its outcome
    xmlCalls,       \* number of run.toXml() calls
    snapshotAt,     \* history: how far the 'end' handler was when it
                    \* assigned runner.testResults
    thrown          \* the call whose exception left the 'end' handler, or "none"

eventVars == <<state, err, pendingFlag, started, ended, tests, failedHook,
               suiteEnded, hookFailedIn, owed>>

endVars == <<phase, inputs, testResults, filename, runResults,
             excludedPendingCount, warnings, stdout, fsLog, xmlCalls,
             snapshotAt, thrown>>

\* endVars without runner.testResults
outputVars == <<phase, inputs, filename, runResults, excludedPendingCount,
                warnings, stdout, fsLog, xmlCalls, snapshotAt, thrown>>

vars == <<state, err, pendingFlag, started, ended, tests, failedHook,
          suiteEnded, hookFailedIn, owed, phase, inputs, testResults, filename,
          runResults, excludedPendingCount, warnings, stdout, fsLog, xmlCalls,
          snapshotAt, thrown>>

\* ------------------------------------------------------- JavaScript values

Undefined == <<"undefined">>

JsBool(b) == <<"boolean", b>>

JsString(chunks) == <<"string", chunks>>

\* x === true
IsTrue(x) == x[1] = "boolean" /\ x[2] = TRUE

\* ToBoolean(x): undefined, false and the empty string are falsy.
Truthy(x) ==
    CASE x[1] = "undefined" -> FALSE
      [] x[1] = "boolean" -> x[2]
      [] x[1] = "string" -> x[2] # <<>>
      [] OTHER -> TRUE

\* a || b
JsOr(a, b) == IF Truthy(a) THEN a ELSE b

\* ----------------------------------------------------------- Set `tests`

InSet(seq, x) == \E i \in 1..Len(seq) : seq[i] = x

\* A mutation of SetAdd: the value is deleted and added again, which moves a
\* value already in the set to the end.
SetAddMove(seq, x) == Append(SelectSeq(seq, LAMBDA y : y # x), x)

\* A mutation of SetAdd: a list that appends without looking.
SetAddAppend(seq, x) == Append(seq, x)

\* Set.prototype.add: a value already in the set keeps its place.
SetAdd(seq, x) == IF InSet(seq, x) THEN seq ELSE Append(seq, x)

\* ---------------------------------------------------------------- Init

NoTestResults == [stats |-> "none", tests |-> <<>>]

\* The 'end' handler has not assigned runner.testResults.
NotAttached == [results |-> -1, excluded |-> -1, stdout |-> -1, fs |-> -1,
                xml |-> -1]

NoInputs == [reporterOptions |-> [output |-> Undefined,
                                  excludePending |-> Undefined,
                                  warnExcludedPending |-> Undefined],
             envFile |-> Undefined,
             attachments |-> [t \in Tests |-> <<>>],
             randomSeed |-> 0,
             transformed |-> [t \in Tests |-> [executionId |-> Undefined,
                                              relativeResultsDirectory |-> Undefined,
                                              resultFiles |-> Undefined]],
             failing |-> [mkdirAttachments |-> FALSE, copy |-> {},
                          mkdirOutput |-> FALSE, writeFile |-> FALSE]]

InitEnd ==
    /\ phase = "running"
    /\ inputs = NoInputs
    /\ testResults = NoTestResults
    /\ filename = Undefined
    /\ runResults = <<>>
    /\ excludedPendingCount = 0
    /\ warnings = <<>>
    /\ stdout = <<>>
    /\ fsLog = <<>>
    /\ xmlCalls = 0
    /\ snapshotAt = NotAttached
    /\ thrown = "none"

Init ==
    /\ state = [t \in Tests |-> "none"]
    /\ err = [t \in Tests |-> NoErr]
    /\ pendingFlag \in [Tests -> BOOLEAN]
    /\ started = [t \in Tests |-> FALSE]
    /\ ended = [t \in Tests |-> FALSE]
    /\ tests = <<>>
    /\ failedHook = NoHook
    /\ suiteEnded = {}
    /\ hookFailedIn = {}
    /\ owed = [t \in Tests |-> {}]
    /\ InitEnd

\* ------------------------------------------------------ the runner's part

\* The runner emits the events of a test or a hook while its suite is open.
Open(s) == phase = "running" /\ s \notin suiteEnded

\* The runner marks a test passed (it emits 'pass', which the reporter does
\* not subscribe to).
RunnerPass(t) ==
    /\ Open(TestParent(t))
    /\ started[t]
    /\ state[t] = "none"
    /\ ~pendingFlag[t]
    /\ state' = [state EXCEPT ![t] = "passed"]
    /\ UNCHANGED <<err, pendingFlag, started, ended, tests, failedHook,
                   suiteEnded, hookFailedIn, owed>>
    /\ UNCHANGED endVars

\* The runner gives a pending test the state "pending" (mocha 8 and later;
\* earlier versions leave it undefined).
RunnerPending(t) ==
    /\ Open(TestParent(t))
    /\ state[t] = "none"
    /\ pendingFlag[t]
    /\ state' = [state EXCEPT ![t] = "pending"]
    /\ UNCHANGED <<err, pendingFlag, started, ended, tests, failedHook,
                   suiteEnded, hookFailedIn, owed>>
    /\ UNCHANGED endVars

\* ------------------------------------------------------------- handlers

\* runner.on('test').  The runner starts a test that is not pending, once.
TestStart(t) ==
    /\ Open(TestParent(t))
    /\ ~started[t]
    /\ ~pendingFlag[t]
    /\ state[t] = "none"
    /\ started' = [started EXCEPT ![t] = TRUE]
    /\ UNCHANGED <<state, err, pendingFlag, ended, tests, failedHook,
                   suiteEnded, hookFailedIn, owed>>
    /\ UNCHANGED endVars

\* A mutation of SnapshotAfterTestEnd: the snapshot is kept up to date at
\* every 'test end'.
SnapshotAfterTestEndLive(seq) == [stats |-> "stats", tests |-> seq]

\* runner.testResults after 'test end', the accumulated set being seq: lines
\* 34-37 do not assign it.
SnapshotAfterTestEnd(seq) == testResults

\* runner.on('test end').  The runner emits it for a test that has passed or
\* failed and for a pending test; nothing keeps it from emitting it again.
TestEnd(t) ==
    /\ Open(TestParent(t))
    /\ state[t] # "none" \/ pendingFlag[t]
    /\ ended' = [ended EXCEPT ![t] = TRUE]
    /\ tests' = SetAdd(tests, t)
    /\ testResults' = SnapshotAfterTestEnd(SetAdd(tests, t))
    /\ UNCHANGED <<state, err, pendingFlag, started, failedHook,
                   suiteEnded, hookFailedIn, owed>>
    /\ UNCHANGED outputVars

\* A mutation of OnFail: every failure is remembered.
OnFailAny(failed) == failed

\* runner.on('fail'): the new value of failedHook.
OnFail(failed) == IF failed.type = "hook" THEN failed ELSE failedHook

\* 'fail' for a hook.
FailHook(h) ==
    /\ Open(h.parent)
    /\ failedHook' = OnFail(h)
    /\ hookFailedIn' = hookFailedIn \cup {h.parent}
    /\ UNCHANGED <<state, err, pendingFlag, started, ended, tests,
                   suiteEnded, owed>>
    /\ UNCHANGED endVars

\* 'fail' for a test: the runner has set its state and its error.
FailTest(t) ==
    /\ Open(TestParent(t))
    /\ started[t]
    /\ state[t] = "none"
    /\ ~pendingFlag[t]
    /\ state' = [state EXCEPT ![t] = "failed"]
    /\ err' = [err EXCEPT ![t] = TestBodyErr]
    /\ failedHook' = OnFail(FailedTest(t))
    /\ UNCHANGED <<pendingFlag, started, ended, tests, suiteEnded,
                   hookFailedIn, owed>>
    /\ UNCHANGED endVars

\* The error object built at lines 50-53.
NotExecutedErr(h) ==
    [message |-> <<"Not executed due to", h.title, "on">> \o FullTitle(h.parent),
     stack |-> HookStack(h)]

\* A mutation of NeedsPropagation: every nested test is overwritten.
NeedsPropagationAll(isPending, st) == TRUE

\* A mutation of NeedsPropagation: the pending flag is not looked at.
NeedsPropagationStateless(isPending, st) == st = "none"

\* Line 49: test.isPending() || !test.state
NeedsPropagation(isPending, st) == isPending \/ st = "none"

\* The callback of suite.eachTest, lines 49-60, on the triple
\* [state, err, tests].
PropagateTo(acc, t, h) ==
    IF NeedsPropagation(pendingFlag[t], acc.state[t])
    THEN [state |-> [acc.state EXCEPT ![t] = IF @ = "none" THEN "failed" ELSE @],
          err |-> [acc.err EXCEPT ![t] = NotExecutedErr(h)],
          tests |-> SetAdd(acc.tests, t)]
    ELSE acc

RECURSIVE PropagateAll(_, _, _)
PropagateAll(acc, seq, h) ==
    IF seq = <<>> THEN acc
    ELSE PropagateAll(PropagateTo(acc, Head(seq), h), Tail(seq), h)

\* A mutation of MarkerMatches: any pending marker is consumed.
MarkerMatchesAny(s) == failedHook # NoHook

\* Line 46: failedHook && failedHook.parent === suite
MarkerMatches(s) == failedHook # NoHook /\ failedHook.parent = s

\* runner.on('suite end').  A suite ends after the suites nested in it.
SuiteEnd(s) ==
    /\ Open(s)
    /\ \A i \in 1..Len(SuiteChildren(s)) : SuiteChildren(s)[i] \in suiteEnded
    /\ suiteEnded' = suiteEnded \cup {s}
    /\ LET after == IF MarkerMatches(s)
                    THEN PropagateAll([state |-> state, err |-> err,
                                       tests |-> tests], EachTest(s), failedHook)
                    ELSE [state |-> state, err |-> err, tests |-> tests]
           failedIn == hookFailedIn \cap {s}
       IN  /\ state' = after.state
           /\ err' = after.err
           /\ tests' = after.tests
           /\ failedHook' = IF MarkerMatches(s) THEN NoHook ELSE failedHook
           /\ owed' = [t \in Tests |->
                         IF /\ InSet(EachTest(s), t)
                            /\ state[t] = "none"
                            /\ ~pendingFlag[t]
                         THEN owed[t] \cup failedIn ELSE owed[t]]
    /\ UNCHANGED <<pendingFlag, started, ended, hookFailedIn>>
    /\ UNCHANGED endVars

\* ------------------------------------------------------------- strings

\* s.indexOf(token): the 0-based place of the first occurrence, or -1.
IndexOf(chunks, token) ==
    IF \E i \in 1..Len(chunks) : chunks[i] = token
    THEN (CHOOSE i \in 1..Len(chunks) :
             /\ chunks[i] = token
             /\ \A j \in 1..(i - 1) : chunks[j] # token) - 1
    ELSE -1

RECURSIVE ReplaceEvery(_, _, _)
\* A mutation of Replace: every occurrence is replaced.
ReplaceEvery(chunks, token, by) ==
    IF chunks = <<>> THEN <<>>
    ELSE (IF Head(chunks) = token THEN by ELSE <<Head(chunks)>>)
         \o ReplaceEvery(Tail(chunks), token, by)

\* s.replace(token, by) with a string pattern: the first occurrence only.
Replace(chunks, token, by) ==
    LET i == IndexOf(chunks, token) + 1
    IN  IF i = 0 THEN chunks
        ELSE SubSeq(chunks, 1, i - 1) \o by \o SubSeq(chunks, i + 1, Len(chunks))

\* The place of the last path separator, 0 when there is none.
LastSep(chunks) ==
    IF \E i \in 1..Len(chunks) : chunks[i] = "/"
    THEN CHOOSE i \in 1..Len(chunks) :
             /\ chunks[i] = "/"
             /\ \A j \in (i + 1)..Len(chunks) : chunks[j] # "/"
    ELSE 0

\* a.split(path.sep).pop()
BaseName(chunks) == SubSeq(chunks, LastSep(chunks) + 1, Len(chunks))

\* path.dirname(p)
DirName(chunks) ==
    IF LastSep(chunks) = 0 THEN <<".">> ELSE SubSeq(chunks, 1, LastSep(chunks) - 1)

\* path.join(a, b, c, d)
PathJoin(a, b, c, d) == a \o <<"/">> \o b \o <<"/">> \o c \o <<"/">> \o d

HexDigits == <<"0", "1", "2", "3", "4", "5", "6", "7",
               "8", "9", "a", "b", "c", "d", "e", "f">>

\* The number of random bytes of a [hash].
HashBytes == 16

\* crypto.randomBytes(n): what the generator returns is an input of the run.
RandomBytes(n, seed) == [i \in 1..n |-> (seed * i + i - 1) % 256]

RECURSIVE ToHex(_)
\* buffer.toString('hex'): two lowercase digits per byte.
ToHex(bytes) ==
    IF bytes = <<>> THEN <<>>
    ELSE <<HexDigits[(Head(bytes) \div 16) + 1], HexDigits[(Head(bytes) % 16) + 1]>>
         \o ToHex(Tail(bytes))

\* getFilename(reporterOptions), with process.env.MOCHA_REPORTER_FILE and the
\* generator's seed.
GetFilename(reporterOptions, envFile, seed) ==
    LET filePath == JsOr(reporterOptions.output, envFile)
    IN  IF Truthy(filePath) /\ IndexOf(filePath[2], "[hash]") # -1
        THEN JsString(Replace(filePath[2], "[hash]",
                              ToHex(RandomBytes(HashBytes, seed))))
        ELSE filePath

\* ---------------------------------------------------- the 'end' handler

\* process.cwd()
Cwd == <<"cwd">>

\* uuid.v4(): the n-th identifier generated in this run.
Uuid(n) == JsString(<<"uuid">> \o [i \in 1..n |-> "-"])

\* testToTrx(test, computerName, cwd, reporterOptions), of ./test-to-trx: the
\* result carries the test's state and error; whether it already has an
\* execution id, a results directory or result files is the transformation's.
TestToTrx(t, transformed) ==
    [test |-> t,
     outcome |-> state[t],
     err |-> err[t],
     executionId |-> transformed.executionId,
     relativeResultsDirectory |-> transformed.relativeResultsDirectory,
     resultFiles |-> transformed.resultFiles]

\* Line 114
AttachmentPath(file, relativeResultsDirectory) ==
    PathJoin(Cwd, Replace(file, ".trx", <<>>), <<"In">>, relativeResultsDirectory)

\* A mutation of TryMkdir: the exception is not caught.
TryMkdirUncaught(acc, path, fails) ==
    IF fails
    THEN [acc EXCEPT !.fs = Append(@, [call |-> "mkdirSync", path |-> path,
                                       from |-> <<>>, ok |-> FALSE]),
                     !.thrown = "mkdirSync attachments"]
    ELSE [acc EXCEPT !.fs = Append(@, [call |-> "mkdirSync", path |-> path,
                                       from |-> <<>>, ok |-> TRUE])]

\* Lines 116-120: the directory is created, or the error is written to
\* standard output.
TryMkdir(acc, path, fails) ==
    IF fails
    THEN [acc EXCEPT !.fs = Append(@, [call |-> "mkdirSync", path |-> path,
                                       from |-> <<>>, ok |-> FALSE]),
                     !.stdout = Append(@, [kind |-> "log",
                         text |-> <<"Error creating directory for attachments">>
                                  \o path])]
    ELSE [acc EXCEPT !.fs = Append(@, [call |-> "mkdirSync", path |-> path,
                                       from |-> <<>>, ok |-> TRUE])]

\* Lines 124-132: one attachment is copied, or the error is written to
\* standard output; `files` collects the references returned.
CopyOne(acc, a, k, attachmentPath, failing) ==
    LET attachmentName == BaseName(a)
        target == attachmentPath \o <<"/">> \o attachmentName
        said == [acc EXCEPT !.stdout = Append(@, [kind |-> "log",
                     text |-> <<"Copy attachment">> \o attachmentName])]
        tried == IF k \in failing.copy
                 THEN [said EXCEPT
                         !.fs = Append(@, [call |-> "copyFileSync", path |-> target,
                                           from |-> a, ok |-> FALSE]),
                         !.stdout = Append(@, [kind |-> "log",
                             text |-> <<"Error copying attachment from">> \o a])]
                 ELSE [said EXCEPT
                         !.fs = Append(@, [call |-> "copyFileSync", path |-> target,
                                           from |-> a, ok |-> TRUE])]
    IN  [tried EXCEPT !.files = Append(@, [path |-> attachmentName])]

RECURSIVE CopyAll(_, _, _, _, _)
\* test.attachments.map(...), from the k-th attachment on.
CopyAll(acc, attachments, k, attachmentPath, failing) ==
    IF k > Len(attachments) THEN acc
    ELSE CopyAll(CopyOne(acc, attachments[k], k, attachmentPath, failing),
                 attachments, k + 1, attachmentPath, failing)

\* A mutation of ResultsDirectory: the directory is always the execution id.
ResultsDirectoryFromId(result, executionId) == executionId

\* Line 111: result.relativeResultsDirectory || result.executionId
ResultsDirectory(result, executionId) ==
    JsOr(result.relativeResultsDirectory, executionId)

\* Lines 108-135: the attachments of one test are moved and its result is
\* completed.  acc.result is the result on its way to run.addResult.
Relocate(acc, t, file, in) ==
    LET result == acc.result
        fresh == ~Truthy(result.executionId)
        executionId == JsOr(result.executionId, Uuid(acc.uuids + 1))
        directory == ResultsDirectory(result, executionId)
        attachmentPath == AttachmentPath(file, directory[2])
        a1 == [acc EXCEPT
                 !.uuids = IF fresh THEN @ + 1 ELSE @,
                 !.files = <<>>,
                 !.stdout = Append(@, [kind |-> "log",
                     text |-> <<"Creating directory for attachments">>
                              \o attachmentPath])]
        a2 == TryMkdir(a1, attachmentPath, in.failing.mkdirAttachments)
        a3 == IF a2.thrown # "none" THEN a2
              ELSE CopyAll(a2, in.attachments[t], 1, attachmentPath, in.failing)
        before == IF Truthy(result.resultFiles) THEN result.resultFiles[2] ELSE <<>>
    IN  IF a3.thrown # "none" THEN a3
        ELSE [a3 EXCEPT !.result =
                 [result EXCEPT !.executionId = executionId,
                                !.relativeResultsDirectory = directory,
                                !.resultFiles = <<"array", before \o a3.files>>]]

\* A mutation of Excluded: any truthy option excludes, and 'true' typed on
\* the command line is a string.
ExcludedLoose(t, reporterOptions) ==
    pendingFlag[t] /\ Truthy(reporterOptions.excludePending)

\* Line 100: test.isPending() && reporterOptions.excludePending === true
Excluded(t, reporterOptions) ==
    pendingFlag[t] /\ IsTrue(reporterOptions.excludePending)

\* Line 108: filename && test.attachments?.length
WantsRelocation(file, attachments) == Truthy(file) /\ Len(attachments) > 0

\* The callback of testResults.tests.forEach, lines 99-138.
ForEachTest(acc, t, file, in) ==
    IF acc.thrown # "none" THEN acc
    ELSE IF Excluded(t, in.reporterOptions)
    THEN [acc EXCEPT !.excluded = @ + 1]
    ELSE LET a0 == [acc EXCEPT !.result = TestToTrx(t, in.transformed[t])]
             a1 == IF WantsRelocation(file, in.attachments[t])
                   THEN Relocate(a0, t, file[2], in)
                   ELSE a0
         IN  IF a1.thrown # "none" THEN a1
             ELSE [a1 EXCEPT !.results = Append(@, a1.result)]

RECURSIVE ForEach(_, _, _, _)
ForEach(acc, seq, file, in) ==
    IF seq = <<>> THEN acc
    ELSE ForEach(ForEachTest(acc, Head(seq), file, in), Tail(seq), file, in)

\* A mutation of Warns: the count is not looked at.
WarnsAlways(reporterOptions, count) == IsTrue(reporterOptions.warnExcludedPending)

\* Line 140
Warns(reporterOptions, count) ==
    IsTrue(reporterOptions.warnExcludedPending) /\ count > 0

\* Lines 143-145
WarningText(count) ==
    IF count = 1
    THEN [phrase |-> "Excluded 1 test because it is marked as Pending.",
          count |-> 1]
    ELSE [phrase |-> "Excluded N tests because they are marked as Pending.",
          count |-> count]

\* Lines 149-154 on what the loop left: the document is written to the file,
\* or to standard output.  An exception of mkdirSync or writeFileSync is not
\* caught here.  acc.xml counts the calls of run.toXml(), whose value is the
\* argument of the write.
Emit(acc, file, failing) ==
    IF acc.thrown # "none" THEN acc
    ELSE IF Truthy(file)
    THEN IF failing.mkdirOutput
         THEN [acc EXCEPT
                 !.fs = Append(@, [call |-> "mkdirSync", path |-> DirName(file[2]),
                                   from |-> <<>>, ok |-> FALSE]),
                 !.thrown = "mkdirSync output"]
         ELSE IF failing.writeFile
         THEN [acc EXCEPT
                 !.fs = @ \o <<[call |-> "mkdirSync", path |-> DirName(file[2]),
                                from |-> <<>>, ok |-> TRUE],
                               [call |-> "writeFileSync", path |-> file[2],
                                from |-> <<"xml">>, ok |-> FALSE]>>,
                 !.xml = @ + 1,
                 !.thrown = "writeFileSync output"]
         ELSE [acc EXCEPT
                 !.fs = @ \o <<[call |-> "mkdirSync", path |-> DirName(file[2]),
                                from |-> <<>>, ok |-> TRUE],
                               [call |-> "writeFileSync", path |-> file[2],
                                from |-> <<"xml">>, ok |-> TRUE]>>,
                 !.xml = @ + 1]
    ELSE [acc EXCEPT
            !.stdout = Append(@, [kind |-> "xml", text |-> <<"TestRun">>]),
            !.xml = @ + 1]

\* The runner emits 'end' once, after the last 'suite end'.
EndReady == phase = "running" /\ suiteEnded = Suites

\* The handler as it is entered: no result, no output, no fs call, no
\* snapshot.  `result` and `files` are the loop's locals.
LoopStart ==
    [results |-> <<>>, excluded |-> 0, stdout |-> <<>>, fs |-> <<>>,
     uuids |-> 0, files |-> <<>>, xml |-> 0, thrown |-> "none",
     snapshot |-> NoTestResults, snapshotAt |-> NotAttached,
     result |-> [test |-> 0, outcome |-> "none", err |-> NoErr,
                 executionId |-> Undefined,
                 relativeResultsDirectory |-> Undefined,
                 resultFiles |-> Undefined]]

\* How far the handler is: the results added, the tests excluded, the writes
\* to standard output, the fs calls and the serializations so far.
Progress(acc) ==
    [results |-> Len(acc.results), excluded |-> acc.excluded,
     stdout |-> Len(acc.stdout), fs |-> Len(acc.fs), xml |-> acc.xml]

\* A mutation of AttachSnapshot: the pending tests are left out.
AttachSnapshotFiltered(acc, seq) ==
    [acc EXCEPT !.snapshot = [stats |-> "stats",
                              tests |-> SelectSeq(seq, LAMBDA t : ~pendingFlag[t])],
                !.snapshotAt = Progress(acc)]

\* Lines 68-73: testResults = {stats: self.stats, tests: [...tests.values()]}
\* is assigned to runner.testResults.
AttachSnapshot(acc, seq) ==
    [acc EXCEPT !.snapshot = [stats |-> "stats", tests |-> seq],
                !.snapshotAt = Progress(acc)]

\* runner.on('end') with the inputs `in`: options, environment, attachments,
\* what the transformation presets, and the fs calls that fail.  The
\* filename, the loop's outcome and the emission are each computed once.
EndWith(in) ==
    /\ EndReady
    /\ phase' = "ended"
    /\ inputs' = in
    /\ \E attached \in {AttachSnapshot(LoopStart, tests)} :
       \E file \in {GetFilename(in.reporterOptions, in.envFile, in.randomSeed)} :
       \E looped \in {ForEach(attached, attached.snapshot.tests, file, in)} :
       \E done \in {Emit(looped, file, in.failing)} :
           /\ testResults' = done.snapshot
           /\ snapshotAt' = done.snapshotAt
           /\ filename' = file
           /\ runResults' = done.results
           /\ excludedPendingCount' = done.excluded
           /\ warnings' = IF looped.thrown = "none"
                             /\ Warns(in.reporterOptions, looped.excluded)
                          THEN <<WarningText(looped.excluded)>> ELSE <<>>
           /\ stdout' = done.stdout
           /\ fsLog' = done.fs
           /\ xmlCalls' = done.xml
           /\ thrown' = done.thrown
    /\ UNCHANGED eventVars

\* ------------------------------------------------------- inputs of 'end'

OptionValues == {Undefined, JsBool(TRUE), JsString(<<"t", "r", "u", "e">>)}

PlainFile == JsString(<<"results", "/", "out", ".trx">>)

NoFailure == NoInputs.failing

\* The k-th attachment of a test: odd ones lie in a directory.
AttachmentFile(k) ==
    (IF k % 2 = 1 THEN <<"shots", "/">> ELSE <<>>)
    \o [i \in 1..k |-> "x"] \o <<".png">>

AttachmentList(n) == [k \in 1..n |-> AttachmentFile(k)]

\* Attachment lists of the tests: none, one file, or the longest list.  Only
\* the lists of accumulated tests are read.
AttachmentChoices ==
    {f \in [Tests -> {AttachmentList(n) : n \in {0, 1, MaxAttachments}}] :
        \A t \in Tests : ~InSet(tests, t) => f[t] = <<>>}

\* The fs calls that fail: the creation of the attachment directories, the
\* copy of the first or of the last attachment of a list, the creation of the
\* output directory or the writing of the output file.
FailureChoices ==
    {f \in [mkdirAttachments : BOOLEAN,
            copy : {{}, {1}, {MaxAttachments}},
            mkdirOutput : BOOLEAN,
            writeFile : BOOLEAN] : ~(f.mkdirOutput /\ f.writeFile)}

\* The name of test t as a string.
TestName(t) == [i \in 1..t |-> "t"]

\* What the transformation may have set on the result of test t.
Preset(t, hasId, hasDirectory, hasFiles) ==
    [executionId |-> IF hasId THEN JsString(<<"exec">> \o TestName(t))
                     ELSE Undefined,
     relativeResultsDirectory |->
         IF hasDirectory THEN JsString(<<"dir">> \o TestName(t)) ELSE Undefined,
     resultFiles |-> IF hasFiles THEN <<"array", <<[path |-> <<"log.txt">>]>> >>
                     ELSE Undefined]

\* 'end' with the options varied, no attachments and a working file system.
End ==
    /\ EndReady
    /\ \E output \in {Undefined, PlainFile},
       excludePending \in OptionValues,
       warnExcludedPending \in OptionValues :
        EndWith([NoInputs EXCEPT
                   !.reporterOptions = [output |-> output,
                                        excludePending |-> excludePending,
                                        warnExcludedPending |-> warnExcludedPending]])

EventNext ==
    \/ \E t \in Tests : RunnerPass(t)
    \/ \E t \in Tests : RunnerPending(t)
    \/ \E t \in Tests : TestStart(t)
    \/ \E t \in Tests : TestEnd(t)
    \/ \E h \in Hooks : FailHook(h)
    \/ \E t \in Tests : FailTest(t)
    \/ \E s \in Suites : SuiteEnd(s)

Next == EventNext \/ End

Spec == Init /\ [][Next]_vars

\* ------------------------------------------- runs without hook failures

\* The events of a run in which no hook fails.
PlainEventNext ==
    \/ \E t \in Tests : RunnerPass(t)
    \/ \E t \in Tests : RunnerPending(t)
    \/ \E t \in Tests : TestStart(t)
    \/ \E t \in Tests : TestEnd(t)
    \/ \E t \in Tests : FailTest(t)
    \/ \E s \in Suites : SuiteEnd(s)

\* 'end' with attachments and failing fs calls.
EndFailing ==
    /\ EndReady
    /\ \E output \in {Undefined, PlainFile},
       attachments \in AttachmentChoices,
       failing \in FailureChoices :
        \* without an output file no fs call is made that could fail
        /\ output = Undefined => failing = NoFailure
        /\ EndWith([NoInputs EXCEPT !.reporterOptions.output = output,
                                    !.attachments = attachments,
                                    !.failing = failing])

SpecFailing == Init /\ [][PlainEventNext \/ EndFailing]_vars

\* 'end' with an output file, attachments and results that the
\* transformation has filled.
EndAttaching ==
    /\ EndReady
    /\ \E output \in {PlainFile},
       excludePending \in {Undefined, JsBool(TRUE)},
       attachments \in AttachmentChoices,
       hasId \in BOOLEAN, hasDirectory \in BOOLEAN, hasFiles \in BOOLEAN :
        EndWith([NoInputs EXCEPT
                   !.reporterOptions.output = output,
                   !.reporterOptions.excludePending = excludePending,
                   !.attachments = attachments,
                   !.transformed = [t \in Tests |->
                       Preset(t, hasId, hasDirectory, hasFiles)]])

SpecAttaching == Init /\ [][PlainEventNext \/ EndAttaching]_vars

\* Output options and environment values: unset, empty, a plain path, and
\* paths with one or two [hash] placeholders.
HashFile == JsString(<<"results", "/", "[hash]", ".trx">>)

TwoHashFile == JsString(<<"[hash]", "/", "out", "[hash]", ".trx">>)

EnvHashFile == JsString(<<"env", "[hash]", ".trx">>)

Seeds == {0, 7, 255}

\* 'end' with the output option, the environment variable and the random
\* bytes varied.
EndNaming ==
    /\ EndReady
    /\ \E output \in {Undefined, JsString(<<>>), PlainFile, HashFile, TwoHashFile},
          envFile \in {Undefined, EnvHashFile},
          seed \in Seeds :
           EndWith([NoInputs EXCEPT !.reporterOptions.output = output,
                                    !.envFile = envFile,
                                    !.randomSeed = seed])

SpecNaming == Init /\ [][PlainEventNext \/ EndNaming]_vars

\* ------------------------------------------------------------ the claims

NoDuplicates(seq) == \A i, j \in 1..Len(seq) : seq[i] = seq[j] => i = j

\* The error objects the reporter can attach for a hook failure in suite s.
NotExecutedErrsOf(s) == {NotExecutedErr(h) : h \in {g \in Hooks : g.parent = s}}

AnyNotExecutedErr == UNION {NotExecutedErrsOf(s) : s \in Suites}

\* The result entries whose source is test t.
EntriesOf(t) == {i \in 1..Len(runResults) : runResults[i].test = t}

\* C1: every test for which 'test end' was observed is in the accumulated
\* set, and no test is in it twice: a second 'test end' for a test, or the
\* insertion at 'suite end' of a test that 'test end' inserted, adds no entry.
C1_EndedTestsAccumulatedOnce ==
    /\ \A t \in Tests : ended[t] => InSet(tests, t)
    /\ NoDuplicates(tests)

\* C1 witness: a test inserted by 'test end' that a 'suite end' has inserted
\* again (it carries the error of the propagation), next to another entry.
C1_Witness ==
    \E t \in Tests :
        /\ ended[t]
        /\ err[t] \in AnyNotExecutedErr
        /\ InSet(tests, t)
        /\ Len(tests) = NumTests

\* C2, as claimed: at run-end, every test that had no state (and was not
\* pending) when a suite around it ended after a hook of that suite had
\* failed, whatever other hooks failed in between, has a result entry
\* with state failed and the error naming a hook of that suite.
C2_UnresolvedTestsOfFailedScopeReported ==
    phase = "ended" =>
        \A t \in Tests : \A s \in owed[t] :
            \E i \in EntriesOf(t) :
                /\ runResults[i].outcome = "failed"
                /\ runResults[i].err \in NotExecutedErrsOf(s)

\* The step just taken is 'suite end' of s with the marker on s.
PropagationStep(s) ==
    /\ phase = "running"
    /\ s \notin suiteEnded
    /\ s \in suiteEnded'
    /\ MarkerMatches(s)

\* C3: when a suite with a matching marker ends, a nested test that is
\* passed or failed and not pending keeps its state and its error, and the
\* event does not insert it into the accumulated set.
C3_ResolvedTestsUntouched ==
    [][\A s \in Suites : PropagationStep(s) =>
          \A t \in Tests :
              (/\ InSet(EachTest(s), t)
               /\ state[t] \in {"passed", "failed"}
               /\ ~pendingFlag[t])
              => /\ state'[t] = state[t]
                 /\ err'[t] = err[t]
                 /\ InSet(tests', t) <=> InSet(tests, t)]_vars

\* C3 witness: suite "A" has ended with a marker on it (test 1 carries its
\* error) while test 2, nested in it, had passed, was never handed to
\* 'test end', and is not in the set.
C3_Witness ==
    /\ "A" \in suiteEnded
    /\ err[1] \in NotExecutedErrsOf("A")
    /\ state[2] = "passed"
    /\ err[2] = NoErr
    /\ ~InSet(tests, 2)

PendingAccumulated == {i \in 1..Len(tests) : pendingFlag[tests[i]]}

\* C4: at run-end with excludePending === true no result entry comes from a
\* pending test, the excluded count is the number of pending accumulated
\* tests and every other accumulated test has exactly one entry; otherwise
\* the count is 0 and every accumulated test has exactly one entry.
C4_PendingExclusion ==
    phase = "ended" =>
        /\ \A i \in 1..Len(runResults) : InSet(tests, runResults[i].test)
        /\ IF IsTrue(inputs.reporterOptions.excludePending)
           THEN /\ \A i \in 1..Len(runResults) : ~pendingFlag[runResults[i].test]
                /\ excludedPendingCount = Cardinality(PendingAccumulated)
                /\ \A i \in 1..Len(tests) :
                      ~pendingFlag[tests[i]]
                      => Cardinality(EntriesOf(tests[i])) = 1
           ELSE /\ excludedPendingCount = 0
                /\ \A i \in 1..Len(tests) : Cardinality(EntriesOf(tests[i])) = 1

\* C4 witness: a run-end that excluded a pending test and reported another.
C4_Witness ==
    /\ phase = "ended"
    /\ IsTrue(inputs.reporterOptions.excludePending)
    /\ excludedPendingCount = 1
    /\ Len(runResults) = 1

\* C5: at run-end one warning is emitted exactly when warnExcludedPending
\* === true and the excluded count is positive, none otherwise; it is the
\* singular phrase exactly when the count is 1, and the plural phrase carries
\* the count.
C5_WarningExactlyWhenExcluded ==
    phase = "ended" =>
        /\ Len(warnings) \in {0, 1}
        /\ Len(warnings) = 1 <=>
              (IsTrue(inputs.reporterOptions.warnExcludedPending)
               /\ excludedPendingCount > 0)
        /\ \A i \in 1..Len(warnings) :
              /\ warnings[i].count = excludedPendingCount
              /\ warnings[i].phrase
                   = "Excluded 1 test because it is marked as Pending."
                 <=> excludedPendingCount = 1
              /\ warnings[i].phrase
                   = "Excluded N tests because they are marked as Pending."
                 <=> excludedPendingCount # 1

\* C5 witness: a run-end that warned in the plural.
C5_Witness ==
    /\ phase = "ended"
    /\ Len(warnings) = 1
    /\ excludedPendingCount = 2
    /\ warnings[1].count = 2

HexStrings == {ToHex(RandomBytes(HashBytes, seed)) : seed \in Seeds}

IsHex32(chunks) ==
    /\ Len(chunks) = 32
    /\ \A i \in 1..Len(chunks) : \E d \in 1..Len(HexDigits) : chunks[i] = HexDigits[d]

\* C6, as claimed: the output option, when set, is the source of the path
\* whatever the environment holds, otherwise the environment variable is;
\* with neither no path is resolved; and the resolved path is its source with
\* every [hash] replaced by a string of 32 lowercase hexadecimal digits, so no
\* [hash] is left in it.
C6_FilenameResolved ==
    phase = "ended" =>
        LET source == IF Truthy(inputs.reporterOptions.output)
                      THEN inputs.reporterOptions.output ELSE inputs.envFile
        IN  IF ~Truthy(source) THEN ~Truthy(filename)
            ELSE /\ Truthy(filename)
                 /\ IndexOf(filename[2], "[hash]") = -1
                 /\ \E hex \in HexStrings :
                       /\ IsHex32(hex)
                       /\ filename[2] = ReplaceEvery(source[2], "[hash]", hex)

\* The fs calls that wrote the document to path p, and the writes of the
\* document to standard output.
FileWrites(p) ==
    {i \in 1..Len(fsLog) :
        fsLog[i].call = "writeFileSync" /\ fsLog[i].path = p /\ fsLog[i].ok}

StdoutDocuments == {i \in 1..Len(stdout) : stdout[i].kind = "xml"}

\* C7, as claimed: at run-end the document is serialized once and emitted
\* once, to the resolved file when a path was resolved and to standard output
\* otherwise; without a resolved path no fs call is made.
C7_EmittedOnceToOneDestination ==
    phase = "ended" =>
        /\ xmlCalls = 1
        /\ IF Truthy(filename)
           THEN /\ Cardinality(FileWrites(filename[2])) = 1
                /\ StdoutDocuments = {}
           ELSE /\ Cardinality(StdoutDocuments) = 1
                /\ fsLog = <<>>

\* The attachment calls of the run-end that failed.
FailedAttachmentCalls ==
    {i \in 1..Len(fsLog) :
        /\ ~fsLog[i].ok
        /\ \/ fsLog[i].call = "copyFileSync"
           \/ fsLog[i].call = "mkdirSync" /\ fsLog[i].path # DirName(filename[2])}

\* The output block of lines 149-154 was entered with a file.
OutputBlockReached ==
    \E i \in 1..Len(fsLog) :
        fsLog[i].call = "mkdirSync" /\ fsLog[i].path = DirName(filename[2])

C9_NoFailureSurfaced ==
    phase = "ended" => thrown = "none"

\* The base name of the k-th attachment of a test.
ExpectedName(k) == [i \in 1..k |-> "x"] \o <<".png">>

\* <output file without extension>/In/<relative results directory>
ExpectedDirectory(directory) ==
    Cwd \o <<"/">> \o SelectSeq(filename[2], LAMBDA c : c # ".trx")
        \o <<"/", "In", "/">> \o directory

RECURSIVE AttachmentCalls(_)
\* The number of fs calls the attachments of the first n results take: one
\* directory and one copy per attachment for a test that has attachments.
AttachmentCalls(n) ==
    IF n = 0 THEN 0
    ELSE LET a == inputs.attachments[runResults[n].test]
         IN  AttachmentCalls(n - 1) + (IF Len(a) > 0 THEN 1 + Len(a) ELSE 0)

\* C10: at run-end with an output file, the result of every test with
\* attachments has an execution id and a results directory (those the
\* transformation set are kept, an unset directory is the execution id), its
\* attachment directory is created once, every attachment is copied once
\* into it under its base name, and its file list is the one it had followed
\* by one reference per attachment, in order.  The result of a test without
\* attachments is as the transformation left it, and no other directory is
\* created and no other file copied.
C10_AttachmentsRelocated ==
    (phase = "ended" /\ Truthy(filename)) =>
        /\ \A n \in 1..Len(runResults) :
              LET r == runResults[n]
                  a == inputs.attachments[r.test]
                  pre == inputs.transformed[r.test]
                  had == IF Truthy(pre.resultFiles) THEN pre.resultFiles[2] ELSE <<>>
                  dir == ExpectedDirectory(r.relativeResultsDirectory[2])
              IN  IF Len(a) > 0
                  THEN /\ Truthy(r.executionId)
                       /\ Truthy(pre.executionId) => r.executionId = pre.executionId
                       /\ Truthy(r.relativeResultsDirectory)
                       /\ r.relativeResultsDirectory
                            = IF Truthy(pre.relativeResultsDirectory)
                              THEN pre.relativeResultsDirectory ELSE r.executionId
                       /\ Cardinality({i \in 1..Len(fsLog) :
                              fsLog[i].call = "mkdirSync" /\ fsLog[i].path = dir}) = 1
                       /\ \A k \in 1..Len(a) :
                              Cardinality({i \in 1..Len(fsLog) :
                                  /\ fsLog[i].call = "copyFileSync"
                                  /\ fsLog[i].from = a[k]
                                  /\ fsLog[i].path = dir \o <<"/">> \o ExpectedName(k)})
                                = 1
                       /\ r.resultFiles
                            = <<"array", had \o [k \in 1..Len(a) |->
                                                    [path |-> ExpectedName(k)]]>>
                  ELSE /\ r.executionId = pre.executionId
                       /\ r.relativeResultsDirectory = pre.relativeResultsDirectory
                       /\ r.resultFiles = pre.resultFiles
        /\ Len(fsLog) = AttachmentCalls(Len(runResults)) + 2

\* C10 witness: a run-end that moved the longest attachment list of a test
\* whose result had a file and a directory but no execution id, and
\* reported a test without attachments.
C10_Witness ==
    /\ phase = "ended"
    /\ Truthy(filename)
    /\ \E n, m \in 1..Len(runResults) :
          /\ Len(inputs.attachments[runResults[n].test]) = MaxAttachments
          /\ ~Truthy(inputs.transformed[runResults[n].test].executionId)
          /\ Truthy(inputs.transformed[runResults[n].test].relativeResultsDirectory)
          /\ Len(runResults[n].resultFiles[2]) = MaxAttachments + 1
          /\ Len(inputs.attachments[runResults[m].test]) = 0
    /\ Len(fsLog) = MaxAttachments + 3

\* C11, as claimed: when a suite with a matching marker ends, every nested
\* test that is pending or has no state has, after the event, the state
\* failed and the error naming a hook of that suite, and is in the
\* accumulated set.
C11_UnresolvedTestsForcedFailed ==
    [][\A s \in Suites : PropagationStep(s) =>
          \A t \in Tests :
              (/\ InSet(EachTest(s), t)
               /\ pendingFlag[t] \/ state[t] = "none")
              => /\ state'[t] = "failed"
                 /\ err'[t] \in NotExecutedErrsOf(s)
                 /\ InSet(tests', t)]_vars

\* C11, amended: when a suite with a matching marker ends, every nested test
\* that is pending or has no state has, after the event, the error built
\* from the marker (the hook's title, the suite's full title, the hook's
\* stack) and is in the accumulated set; a test without a state has the state
\* failed, and a pending test that has a state keeps it.
C11_UnresolvedTestsMarked ==
    [][\A s \in Suites : PropagationStep(s) =>
          \A t \in Tests :
              (/\ InSet(EachTest(s), t)
               /\ pendingFlag[t] \/ state[t] = "none")
              => /\ state'[t] = (IF state[t] = "none" THEN "failed" ELSE state[t])
                 /\ err'[t] = [message |-> <<"Not executed due to",
                                             failedHook.title, "on">>
                                           \o FullTitle(s),
                               stack |-> HookStack(failedHook)]
                 /\ InSet(tests', t)]_vars

\* C11 witness: suite "A" has ended with a marker on it; test 1, which had
\* no state, is failed, and test 2, pending with the state the runner gave
\* it, is still pending; both carry the error and neither was handed to
\* 'test end'.
C11_Witness ==
    /\ "A" \in suiteEnded
    /\ state[1] = "failed"
    /\ err[1] \in NotExecutedErrsOf("A")
    /\ pendingFlag[2]
    /\ state[2] = "pending"
    /\ err[2] = err[1]
    /\ ~ended[1]
    /\ ~ended[2]
    /\ tests = <<1, 2>>

IsPrefix(a, b) == Len(a) <= Len(b) /\ SubSeq(b, 1, Len(a)) = a

\* The source tests of the result entries, in the order of the entries.
ResultTests(results) == [i \in 1..Len(results) |-> results[i].test]

\* C12: the accumulated set only grows at its end, so a test keeps the place
\* of its first insertion: 'test end' puts a test that is not in the set
\* after all that are, a 'suite end' with a matching marker puts the tests
\* it marks that are not yet in the set after all that are, in traversal
\* order, and a test already in the set stays where it is; the result
\* entries at run-end are those of the accumulated tests that are not
\* excluded, in that order.
C12_ResultsInAccumulationOrder ==
    [][/\ IsPrefix(tests, tests')
       /\ \A t \in Tests :
             (ended'[t] /\ ~InSet(tests, t) /\ InSet(tests', t) /\ ~ended[t])
             => tests' = Append(tests, t)
       /\ \A s \in Suites : PropagationStep(s) =>
             tests' = tests \o SelectSeq(EachTest(s),
                         LAMBDA t : /\ pendingFlag[t] \/ state[t] = "none"
                                    /\ ~InSet(tests, t))
       /\ phase' = "ended" =>
             ResultTests(runResults')
               = SelectSeq(tests', LAMBDA t :
                     ~(pendingFlag[t]
                       /\ IsTrue(inputs'.reporterOptions.excludePending)))]_vars

\* C12 witness: test 2, pending, was inserted by 'test end'; then suite "A"
\* ended with a marker on it, which marked test 2 again and inserted test 1
\* behind it; the two result entries are in that order.
C12_Witness ==
    /\ phase = "ended"
    /\ ended[2]
    /\ ~ended[1]
    /\ err[2] \in NotExecutedErrsOf("A")
    /\ err[1] \in NotExecutedErrsOf("A")
    /\ tests = <<2, 1>>
    /\ ResultTests(runResults) = <<2, 1>>

\* C13: as long as 'end' has not been handled, whatever 'test', 'test end',
\* 'fail' and 'suite end' events were, there is no result entry, no
\* document, no warning, nothing on standard output, no fs call, no resolved
\* filename and no snapshot on the runner; after 'end' the snapshot is there.
C13_NoOutputBeforeEnd ==
    /\ phase = "running" =>
          /\ runResults = <<>>
          /\ xmlCalls = 0
          /\ stdout = <<>>
          /\ fsLog = <<>>
          /\ warnings = <<>>
          /\ excludedPendingCount = 0
          /\ filename = Undefined
          /\ testResults = NoTestResults
          /\ snapshotAt = NotAttached
          /\ thrown = "none"
    /\ phase = "ended" => testResults # NoTestResults

\* C13 witness: every suite has ended, a test was started, both tests are
\* accumulated, one by 'test end' and one by the propagation of a hook
\* failure, and 'end' has not been handled: nothing was output.
C13_Witness ==
    /\ phase = "running"
    /\ suiteEnded = Suites
    /\ \E t \in Tests : started[t] /\ ended[t]
    /\ \E t \in Tests : ~ended[t] /\ err[t] \in AnyNotExecutedErr
    /\ Len(tests) = NumTests
    /\ runResults = <<>>
    /\ testResults = NoTestResults

\* C14: at run-end the snapshot on the runner holds the statistics and every
\* accumulated test in insertion order, whatever excludePending is; it was
\* attached when the handler had produced no result entry, excluded no test,
\* written nothing and made no fs call; and it lists the same tests when the
\* handler is done.
C14_SnapshotAttachedFirst ==
    phase = "ended" =>
        /\ testResults.stats = "stats"
        /\ testResults.tests = tests
        /\ snapshotAt = [results |-> 0, excluded |-> 0, stdout |-> 0, fs |-> 0,
                         xml |-> 0]

\* C14 witness: a run-end with excludePending === true that excluded a
\* pending test from the results, wrote the document, and left both tests
\* in the snapshot.
C14_Witness ==
    /\ phase = "ended"
    /\ IsTrue(inputs.reporterOptions.excludePending)
    /\ Len(testResults.tests) = NumTests
    /\ \E i \in 1..Len(testResults.tests) : pendingFlag[testResults.tests[i]]
    /\ Len(runResults) = NumTests - 1
    /\ xmlCalls = 1

\* C15: 'fail' for a hook sets the marker to that hook and 'fail' for a test
\* leaves it as it is, and neither changes the accumulated set; 'test' and
\* 'test end' leave the marker as it is; 'suite end' of the marker's suite
\* clears it; 'suite end' of another suite, or with no marker set, leaves
\* the marker, every test's state and error and the accumulated set as they
\* are; and nothing else changes the marker.
C15_MarkerFrame ==
    [][/\ \A h \in Hooks :
             FailHook(h) => (failedHook' = h /\ tests' = tests)
       /\ \A t \in Tests :
             FailTest(t) => (failedHook' = failedHook /\ tests' = tests)
       /\ \A t \in Tests :
             (TestStart(t) \/ TestEnd(t)) => failedHook' = failedHook
       /\ \A s \in Suites :
             SuiteEnd(s) =>
                 IF failedHook # NoHook /\ failedHook.parent = s
                 THEN failedHook' = NoHook
                 ELSE /\ failedHook' = failedHook
                      /\ state' = state
                      /\ err' = err
                      /\ tests' = tests
       /\ failedHook' # failedHook =>
             \/ \E h \in Hooks : FailHook(h)
             \/ \E s \in Suites : SuiteEnd(s)]_vars

\* C15 witness: the body of test 1 has failed, a hook of "B" and then a hook
\* of "A" have failed, and "B" has ended while the marker was on "A": the
\* marker is still on "A" and test 2, nested in "B", has no state.
C15_Witness ==
    /\ phase = "running"
    /\ failedHook # NoHook
    /\ failedHook.parent = "A"
    /\ "B" \in suiteEnded
    /\ owed[2] = {"B"}
    /\ state[2] = "none"
    /\ err[1] = TestBodyErr
    /\ tests = <<1>>

\* The step changes a test's state or error or inserts a test.
Propagated ==
    \E t \in Tests :
        \/ state'[t] # state[t]
        \/ err'[t] # err[t]
        \/ InSet(tests', t) # InSet(tests, t)

\* C16: a hook failure replaces the marker, whether or not the suite of the
\* hook it held has ended; the end of a suite a hook of which has failed
\* marks tests only if the marker is on that suite at that moment, and then
\* the errors name the hook the marker holds; with no marker set, the end of
\* a suite marks nothing and sets no marker.
C16_MarkerIsMostRecentFailure ==
    [][/\ \A h \in Hooks : FailHook(h) => failedHook' = h
       /\ \A s \in Suites :
             SuiteEnd(s) =>
                 /\ Propagated => (failedHook # NoHook /\ failedHook.parent = s)
                 /\ \A t \in Tests :
                       err'[t] # err[t] =>
                           /\ err'[t].message[2] = failedHook.title
                           /\ err'[t].stack = HookStack(failedHook)
                 /\ failedHook = NoHook => (~Propagated /\ failedHook' = NoHook)]_vars

\* C16 witness: a hook of "A" failed, then a hook of "B" replaced it in the
\* marker; the end of "B" marked test 2 and cleared the marker; the end of
\* "A" found no marker and left test 1 without a state.
C16_Witness ==
    /\ phase = "running"
    /\ suiteEnded = Suites
    /\ hookFailedIn = Suites
    /\ failedHook = NoHook
    /\ err[2] \in NotExecutedErrsOf("B")
    /\ state[1] = "none"
    /\ owed[1] = {"A"}

====
